---- MODULE Spec2Model ----
(***************************************************************************)
(* Credential lifecycle of the Google Drive MCP server (auth.ts, index.ts). *)
(*                                                                         *)
(* The server is one Node.js process: code between two awaits runs to      *)
(* completion, so each action below is one such synchronous segment of a   *)
(* handler.  The file system, the clock, the token endpoint and the        *)
(* interactive browser flow are the environment; they act between the      *)
(* segments.  File-system calls of the process itself (mkdirSync,          *)
(* writeFileSync, readFileSync on an existing file) are taken to succeed.  *)
(***************************************************************************)
EXTENDS Integers, FiniteSets, Sequences, TLC

(***************************************************************************)
(* Bounds of the model.                                                    *)
(***************************************************************************)
MaxCalls == 2
MaxEnvChanges == 1
T0 == 1000

(***************************************************************************)
(* Data.                                                                   *)
(***************************************************************************)
SCOPES == {"drive.readonly", "spreadsheets"}

OAUTH == "oauth"
SERVICE_ACCOUNT == "service_account"

fiveMinutes == 5 * 60 * 1000
tokenLifetime == 60 * 60 * 1000

\* a field that the JSON record does not carry
None == "none"
\* expiry_date missing from the record: new Date(undefined) is an invalid date
NaN == 0 - 1

\* values of process.env.USE_SERVICE_ACCOUNT
EnvValues == {"true", "false", "unset"}

AccessTokens == {"at1", "at2"}

NoRec == [access_token |-> None, refresh_token |-> None,
          expiry_date |-> NaN, scope |-> {}]

\* the key file of the service account: absent, well formed or not
SaFiles == {"absent", "valid", "malformed"}

\* the OAuth credential file: absent, unparseable, or a JSON record
AbsentFile == [state |-> "absent", rec |-> NoRec]
MalformedFile == [state |-> "malformed", rec |-> NoRec]
JsonFile(r) == [state |-> "json", rec |-> r]

\* credential handles: null, a GoogleAuth of the service account, an OAuth2 client
NULL == [kind |-> "null", creds |-> NoRec]
SaHandle == [kind |-> "sa", creds |-> NoRec]
OAuthHandle(r) == [kind |-> "oauth", creds |-> r]

\* the records a credential file may hold when the process starts
InitRecords ==
  { [access_token |-> "at1", refresh_token |-> "rt1", expiry_date |-> e, scope |-> SCOPES] :
        e \in {T0 - 1, T0 + fiveMinutes - 1, T0 + fiveMinutes, T0 + fiveMinutes + 1} }
  \cup
  { [access_token |-> "at1", refresh_token |-> None, expiry_date |-> e, scope |-> SCOPES] :
        e \in {T0 - 1, T0 + fiveMinutes - 1} }
  \cup { [access_token |-> "at1", refresh_token |-> "rt1",
          expiry_date |-> T0 + tokenLifetime, scope |-> {"drive.readonly"}],
         [access_token |-> "at1", refresh_token |-> "rt1",
          expiry_date |-> NaN, scope |-> SCOPES] }

InitFiles == {AbsentFile, MalformedFile} \cup { JsonFile(r) : r \in InitRecords }

(***************************************************************************)
(* Pure functions of auth.ts.                                              *)
(***************************************************************************)
existsSync(f) == f.state # "absent"

\* the flag read as a truthy value instead of compared with "true"
getAuthTypeTruthy(e, sa, f) ==
  IF e # "unset" THEN SERVICE_ACCOUNT
  ELSE IF sa # "absent" /\ ~existsSync(f) THEN SERVICE_ACCOUNT
  ELSE OAUTH

\* the test for the key file dropped from line 107
getAuthTypeNoKeyCheck(e, sa, f) ==
  IF e = "true" THEN SERVICE_ACCOUNT
  ELSE IF ~existsSync(f) THEN SERVICE_ACCOUNT
  ELSE OAUTH

getAuthType(e, sa, f) ==
  IF e = "true" THEN SERVICE_ACCOUNT
  ELSE IF sa # "absent" /\ ~existsSync(f) THEN SERVICE_ACCOUNT
  ELSE OAUTH

\* new google.auth.GoogleAuth({keyFile, scopes}) only records its options:
\* the key file is not read when the handle is built
authenticateWithServiceAccount(sa) ==
  IF sa = "absent" THEN NULL ELSE SaHandle

\* lines 157-160
timeToExpiry(r, t) == r.expiry_date - t

\* the expiry test dropped from line 168
needsRefreshAlways(r, t) == r.refresh_token # None

\* line 168 with <= for <
needsRefreshInclusive(r, t) ==
  timeToExpiry(r, t) <= fiveMinutes /\ r.refresh_token # None

\* line 168
needsRefresh(r, t) ==
  timeToExpiry(r, t) < fiveMinutes /\ r.refresh_token # None

\* the catch of line 184 returns the client it has, without credentials
loadOAuthSyncLenient(f, t) ==
  IF ~existsSync(f) THEN [next |-> "quietDone", ret |-> NULL, read |-> FALSE]
  ELSE IF f.state = "malformed"
       THEN [next |-> "quietDone", ret |-> OAuthHandle(NoRec), read |-> TRUE]
  ELSE IF f.rec.expiry_date = NaN THEN [next |-> "quietDone", ret |-> NULL, read |-> TRUE]
  ELSE IF needsRefresh(f.rec, t)
       THEN [next |-> "refreshing", ret |-> OAuthHandle(f.rec), read |-> TRUE]
  ELSE [next |-> "quietDone", ret |-> OAuthHandle(f.rec), read |-> TRUE]

\* The synchronous part of loadOAuthCredentialsQuietly (lines 139-171, 183-187):
\* it ends with a result, or suspended on refreshAccessToken.
loadOAuthSync(f, t) ==
  IF ~existsSync(f) THEN [next |-> "quietDone", ret |-> NULL, read |-> FALSE]
  ELSE IF f.state = "malformed" THEN [next |-> "quietDone", ret |-> NULL, read |-> TRUE]
  ELSE IF f.rec.expiry_date = NaN THEN [next |-> "quietDone", ret |-> NULL, read |-> TRUE]
  ELSE IF needsRefresh(f.rec, t)
       THEN [next |-> "refreshing", ret |-> OAuthHandle(f.rec), read |-> TRUE]
  ELSE [next |-> "quietDone", ret |-> OAuthHandle(f.rec), read |-> TRUE]

\* the new record merged into the saved one instead of replacing it
writeCredentialsMerged(old, newCreds) ==
  JsonFile([newCreds EXCEPT !.refresh_token =
              IF @ = None THEN old.rec.refresh_token ELSE @])

\* the credential file removed instead of rewritten
writeCredentialsUnlinks(old, newCreds) == AbsentFile

\* what writeFileSync(oauthCredentialsPath, JSON.stringify(newCreds)) leaves on disk
writeCredentials(old, newCreds) == JsonFile(newCreds)

\* the records the token endpoint may answer a refresh of r with, at time t
refreshResponses(r, t) ==
  { [access_token |-> a, refresh_token |-> rt,
     expiry_date |-> t + tokenLifetime, scope |-> r.scope] :
        a \in AccessTokens \ {r.access_token}, rt \in {r.refresh_token, None} }

\* the credentials a completed interactive flow may carry, at time t
interactiveResults(t) ==
  { [access_token |-> a, refresh_token |-> rt,
     expiry_date |-> t + tokenLifetime, scope |-> SCOPES] :
        a \in {"at1"}, rt \in {None, "rt1"} }

\* the scopes a handle is good for: those the GoogleAuth was built with (line 127),
\* those of the credentials set on the OAuth2 client (lines 76, 91, 155, 175)
grantedScopes(h) ==
  IF h.kind = "sa" THEN SCOPES
  ELSE IF h.kind = "oauth" THEN h.creds.scope
  ELSE {}

\* the result installed without the test for null
installQuietlyUnchecked(auth, current) == auth

\* setupTokenRefresh, lines 230-235, and ensureAuthQuietly, lines 291-293
installQuietly(auth, current) == IF auth # NULL THEN auth ELSE current

\* ensureAuth, line 285
installAlways(auth, current) == auth

(***************************************************************************)
(* State.                                                                  *)
(***************************************************************************)
VARIABLES
  env,            \* process.env.USE_SERVICE_ACCOUNT
  saFile,         \* the service-account key file
  oauthFile,      \* the OAuth credential file
  now,            \* the clock, epoch ms
  googleAuth,     \* google.options({auth}): the process-wide default credential
  server,         \* "init", "starting", "connecting", "running", "exited"
  startAuthType,  \* const authType of startServer
  timerActive,    \* the setInterval of setupTokenRefresh is armed
  proc,           \* the call each flow of control is in, with its locals
  lastQuiet,      \* the result of the latest loadOAuthCredentialsQuietly and how many
                  \* loads in a row found a record that was not expiring, the file
                  \* being as the first of them left it
  slots,          \* the request/timer slots in use
  calls,          \* requests and ticks so far
  envChanges      \* changes of the files and steps of the clock so far

vars == <<env, saFile, oauthFile, now, googleAuth, server, startAuthType,
          timerActive, proc, lastQuiet, slots, calls, envChanges>>

\* startServer and two request/timer slots
Handlers == {"h1", "h2"}
Procs == {"main"} \cup Handlers

Idle ==
  [pc |-> "idle", entry |-> "none", force |-> FALSE, ret |-> NULL, client |-> NULL,
   mode0 |-> OAUTH, file0 |-> AbsentFile, now0 |-> 0, disturbed |-> FALSE,
   quietLoads |-> 0, quietRet |-> NULL, reads |-> 0,
   refreshes |-> 0, refreshed |-> "none", fresh |-> NoRec,
   saLoads |-> 0, inters |-> 0, outcome |-> "none", granted |-> NoRec,
   postRefreshes |-> 0, postRefreshed |-> "none", writes |-> 0]

\* startServer has returned: its locals are gone
Returned == [Idle EXCEPT !.pc = "done"]

NoQuiet == [streak |-> 0, ret |-> NULL]

Init ==
  /\ env \in EnvValues
  /\ saFile \in SaFiles
  /\ oauthFile \in InitFiles
  /\ now = T0
  /\ googleAuth = NULL
  /\ server = "init"
  /\ startAuthType = OAUTH
  /\ timerActive = FALSE
  /\ proc = [p \in Procs |-> Idle]
  /\ lastQuiet = NoQuiet
  /\ slots = {"h1"}
  /\ calls = 0
  /\ envChanges = 0

\* the locals of a call that starts now
Fresh(e, f) ==
  [Idle EXCEPT !.entry = e, !.force = f,
               !.mode0 = getAuthType(env, saFile, oauthFile),
               !.file0 = oauthFile, !.now0 = now]

nonExpiring(f, t) ==
  f.state = "json" /\ f.rec.expiry_date # NaN /\ timeToExpiry(f.rec, t) > fiveMinutes

(***************************************************************************)
(* loadCredentialsQuietly, lines 191-200, up to its first suspension.      *)
(***************************************************************************)
loadCredentialsQuietly(l) ==
  IF getAuthType(env, saFile, oauthFile) = SERVICE_ACCOUNT
  THEN [l EXCEPT !.pc = "quietDone",
                 !.ret = authenticateWithServiceAccount(saFile),
                 !.quietRet = authenticateWithServiceAccount(saFile),
                 !.quietLoads = @ + 1, !.saLoads = @ + 1]
  ELSE LET r == loadOAuthSync(oauthFile, now) IN
       [l EXCEPT !.pc = r.next,
                 !.ret = IF r.next = "refreshing" THEN NULL ELSE r.ret,
                 !.quietRet = IF r.next = "refreshing" THEN NULL ELSE r.ret,
                 !.client = IF r.next = "refreshing" THEN r.ret ELSE NULL,
                 !.quietLoads = @ + 1,
                 !.reads = IF r.read THEN @ + 1 ELSE @,
                 !.refreshes = IF r.next = "refreshing" THEN @ + 1 ELSE @]

\* the record of a loadOAuthCredentialsQuietly that ran in this segment
quietRecord(l) ==
  IF l.quietLoads = 0 \/ getAuthType(env, saFile, oauthFile) # OAUTH THEN lastQuiet
  ELSE IF nonExpiring(oauthFile, now)
       THEN [streak |-> lastQuiet.streak + 1, ret |-> l.ret]
  ELSE NoQuiet

(***************************************************************************)
(* getValidCredentials, lines 212-219: the retry of the service account,   *)
(* or the start of authenticateAndSaveCredentials (lines 66-73, 44-59).    *)
(***************************************************************************)
\* the fallback without the interactive flow
fallbackRetryOnly(l) ==
  [l EXCEPT !.pc = "gvcDone",
            !.ret = authenticateWithServiceAccount(saFile),
            !.saLoads = @ + 1]

\* the fallback without lines 213-216
fallbackInteractiveOnly(l) ==
  [l EXCEPT !.pc = "interactive", !.ret = NULL, !.inters = @ + 1]

fallback(l) ==
  IF getAuthType(env, saFile, oauthFile) = SERVICE_ACCOUNT
  THEN [l EXCEPT !.pc = "gvcDone",
                 !.ret = authenticateWithServiceAccount(saFile),
                 !.saLoads = @ + 1]
  ELSE [l EXCEPT !.pc = "interactive", !.ret = NULL, !.inters = @ + 1]

\* forceAuth ignored
getValidCredentialsIgnoresForce(l) == loadCredentialsQuietly(l)

\* getValidCredentials, lines 203-210, up to its first suspension
getValidCredentials(l) ==
  IF ~l.force THEN loadCredentialsQuietly(l) ELSE fallback(l)

(***************************************************************************)
(* Actions: one per synchronous segment.                                   *)
(***************************************************************************)
alive == server # "exited"

\* the credential file changed under the calls that are in flight or just ended
disturb(pr, p) ==
  [q \in Procs |->
     IF q = p \/ pr[q].pc = "idle" THEN pr[q] ELSE [pr[q] EXCEPT !.disturbed = TRUE]]

\* startServer, lines 395-404, into ensureAuth and getValidCredentials()
StartServer ==
  /\ server = "init"
  /\ LET l == getValidCredentials(Fresh("startup", FALSE)) IN
       /\ proc' = [proc EXCEPT !["main"] = l]
       /\ lastQuiet' = quietRecord(l)
  /\ startAuthType' = getAuthType(env, saFile, oauthFile)
  /\ server' = "starting"
  /\ UNCHANGED <<env, saFile, oauthFile, now, googleAuth, timerActive,
                 calls, envChanges, slots>>

canCall(p) ==
  /\ server = "running"
  /\ p \in slots
  /\ proc[p].pc \in {"idle", "done"}
  /\ calls < MaxCalls

begin(p, l) ==
  /\ proc' = [proc EXCEPT ![p] = l]
  /\ lastQuiet' = quietRecord(l)
  /\ calls' = calls + 1
  /\ UNCHANGED <<env, saFile, oauthFile, now, googleAuth, server, startAuthType,
                 timerActive, envChanges, slots>>

\* the CallToolRequestSchema handler, line 385, into ensureAuth
CallTool(p) ==
  /\ canCall(p)
  /\ begin(p, getValidCredentials(Fresh("tool", FALSE)))

\* a collaborator calls the exported getValidCredentials(forceAuth)
CallGetValidCredentials(p, f) ==
  /\ canCall(p)
  /\ begin(p, getValidCredentials(Fresh("api", f)))

\* the ListResources and ReadResource handlers, lines 299 and 334, into ensureAuthQuietly
CallResource(p) ==
  /\ canCall(p)
  /\ begin(p, loadCredentialsQuietly(Fresh("resource", FALSE)))

\* the callback of setInterval, lines 226-229
TimerTick(p) ==
  /\ canCall(p)
  /\ timerActive
  /\ begin(p, loadCredentialsQuietly(Fresh("tick", FALSE)))

\* lines 171-176: refreshAccessToken resolved
RefreshSucceeds(p) ==
  /\ alive
  /\ proc[p].pc = "refreshing"
  /\ \E c \in refreshResponses(proc[p].client.creds, now) :
       /\ oauthFile' = writeCredentials(oauthFile, c)
       /\ proc' = disturb([proc EXCEPT ![p] =
                     [@ EXCEPT !.pc = "quietDone", !.ret = OAuthHandle(c),
                               !.quietRet = OAuthHandle(c), !.client = NULL,
                               !.refreshed = "ok", !.fresh = c, !.writes = @ + 1]], p)
       /\ lastQuiet' = NoQuiet
  /\ UNCHANGED <<env, saFile, now, googleAuth, server, startAuthType, timerActive,
                 calls, envChanges, slots>>

\* the catch of line 177 falls through to line 183
RefreshFailsStale(p) ==
  /\ alive
  /\ proc[p].pc = "refreshing"
  /\ proc' = [proc EXCEPT ![p] =
                [@ EXCEPT !.pc = "quietDone", !.ret = proc[p].client,
                          !.quietRet = proc[p].client,
                          !.client = NULL, !.refreshed = "failed"]]
  /\ UNCHANGED <<env, saFile, oauthFile, now, googleAuth, server, startAuthType,
                 timerActive, lastQuiet, calls, envChanges, slots>>

\* lines 177-180: refreshAccessToken rejected
RefreshFails(p) ==
  /\ alive
  /\ proc[p].pc = "refreshing"
  /\ proc' = [proc EXCEPT ![p] =
                [@ EXCEPT !.pc = "quietDone", !.ret = NULL, !.quietRet = NULL,
                          !.client = NULL, !.refreshed = "failed"]]
  /\ UNCHANGED <<env, saFile, oauthFile, now, googleAuth, server, startAuthType,
                 timerActive, lastQuiet, calls, envChanges, slots>>

\* the quiet callers go through the fallback of getValidCredentials on null
QuietReturnEscalates(p) ==
  /\ alive
  /\ proc[p].pc = "quietDone"
  /\ proc[p].entry \in {"resource", "tick"}
  /\ googleAuth' = installQuietly(proc[p].ret, googleAuth)
  /\ proc' = [proc EXCEPT ![p] =
                IF proc[p].ret # NULL THEN [@ EXCEPT !.pc = "done"]
                ELSE fallbackInteractiveOnly(proc[p])]
  /\ UNCHANGED <<env, saFile, oauthFile, now, server, startAuthType, timerActive,
                 lastQuiet, calls, envChanges, slots>>

\* ensureAuthQuietly, lines 290-294, and the timer callback, lines 229-235
QuietReturn(p) ==
  /\ alive
  /\ proc[p].pc = "quietDone"
  /\ proc[p].entry \in {"resource", "tick"}
  /\ googleAuth' = installQuietly(proc[p].ret, googleAuth)
  /\ proc' = [proc EXCEPT ![p] = [@ EXCEPT !.pc = "done"]]
  /\ UNCHANGED <<env, saFile, oauthFile, now, server, startAuthType, timerActive,
                 lastQuiet, calls, envChanges, slots>>

\* getValidCredentials, lines 206-219, after the quiet load
AfterQuiet(p) ==
  /\ alive
  /\ proc[p].pc = "quietDone"
  /\ proc[p].entry \in {"startup", "tool", "api"}
  /\ proc' = [proc EXCEPT ![p] =
                IF proc[p].ret # NULL THEN [@ EXCEPT !.pc = "gvcDone"]
                ELSE fallback(proc[p])]
  /\ UNCHANGED <<env, saFile, oauthFile, now, googleAuth, server, startAuthType,
                 timerActive, lastQuiet, calls, envChanges, slots>>

\* authenticateWithTimeout, line 59, the flow wins the race; then lines 74-80
InteractiveSucceeds(p) ==
  /\ alive
  /\ proc[p].pc = "interactive"
  /\ \E c \in interactiveResults(now) :
       proc' = [proc EXCEPT ![p] =
                  [@ EXCEPT !.pc = "postRefresh", !.client = OAuthHandle(c),
                            !.outcome = "success", !.granted = c,
                            !.postRefreshes = @ + 1]]
  /\ UNCHANGED <<env, saFile, oauthFile, now, googleAuth, server, startAuthType,
                 timerActive, lastQuiet, calls, envChanges, slots>>

\* authenticateWithTimeout without the timer in the race
InteractiveFailsNoTimer(p, why) ==
  /\ alive
  /\ why = "error"
  /\ proc[p].pc = "interactive"
  /\ proc' = [proc EXCEPT ![p] =
                [@ EXCEPT !.pc = "gvcDone", !.ret = NULL, !.outcome = why]]
  /\ UNCHANGED <<env, saFile, oauthFile, now, googleAuth, server, startAuthType,
                 timerActive, lastQuiet, calls, envChanges, slots>>

\* authenticateWithTimeout, lines 60-63: the flow rejects or the 30000 ms timer
\* wins; auth is null, auth.refreshAccessToken throws and line 95 returns auth
InteractiveFails(p, why) ==
  /\ alive
  /\ proc[p].pc = "interactive"
  /\ proc' = [proc EXCEPT ![p] =
                [@ EXCEPT !.pc = "gvcDone", !.ret = NULL, !.outcome = why]]
  /\ UNCHANGED <<env, saFile, oauthFile, now, googleAuth, server, startAuthType,
                 timerActive, lastQuiet, calls, envChanges, slots>>

\* authenticateAndSaveCredentials, lines 80-92
PostRefreshSucceeds(p) ==
  /\ alive
  /\ proc[p].pc = "postRefresh"
  /\ \E c \in refreshResponses(proc[p].client.creds, now) :
       /\ oauthFile' = writeCredentials(oauthFile, c)
       /\ proc' = disturb([proc EXCEPT ![p] =
                     [@ EXCEPT !.pc = "gvcDone", !.ret = OAuthHandle(c),
                               !.client = NULL, !.fresh = c, !.postRefreshed = "ok",
                               !.writes = @ + 1]], p)
  /\ lastQuiet' = NoQuiet
  /\ UNCHANGED <<env, saFile, now, googleAuth, server, startAuthType, timerActive,
                 calls, envChanges, slots>>

\* the catch of line 93 gives up the credential of the flow
PostRefreshFailsNull(p) ==
  /\ alive
  /\ proc[p].pc = "postRefresh"
  /\ proc' = [proc EXCEPT ![p] =
                [@ EXCEPT !.pc = "gvcDone", !.ret = NULL, !.client = NULL,
                          !.postRefreshed = "failed"]]
  /\ UNCHANGED <<env, saFile, oauthFile, now, googleAuth, server, startAuthType,
                 timerActive, lastQuiet, calls, envChanges, slots>>

\* authenticateAndSaveCredentials, lines 93-96
PostRefreshFails(p) ==
  /\ alive
  /\ proc[p].pc = "postRefresh"
  /\ proc' = [proc EXCEPT ![p] =
                [@ EXCEPT !.pc = "gvcDone", !.ret = proc[p].client, !.client = NULL,
                          !.postRefreshed = "failed"]]
  /\ UNCHANGED <<env, saFile, oauthFile, now, googleAuth, server, startAuthType,
                 timerActive, lastQuiet, calls, envChanges, slots>>

\* ensureAuth, lines 284-286, then startServer, lines 406-407
StartupContinues ==
  /\ alive
  /\ proc["main"].pc = "gvcDone"
  /\ googleAuth' = installAlways(proc["main"].ret, googleAuth)
  /\ server' = "connecting"
  /\ proc' = [proc EXCEPT !["main"] = [@ EXCEPT !.pc = "done"]]
  /\ UNCHANGED <<env, saFile, oauthFile, now, startAuthType, timerActive,
                 lastQuiet, calls, envChanges, slots>>

\* ensureAuth, lines 284-286, in the CallTool handler
ToolContinues(p) ==
  /\ alive
  /\ proc[p].pc = "gvcDone"
  /\ proc[p].entry = "tool"
  /\ googleAuth' = installAlways(proc[p].ret, googleAuth)
  /\ proc' = [proc EXCEPT ![p] = [@ EXCEPT !.pc = "done"]]
  /\ UNCHANGED <<env, saFile, oauthFile, now, server, startAuthType, timerActive,
                 lastQuiet, calls, envChanges, slots>>

\* getValidCredentials returns to the collaborator
ApiReturns(p) ==
  /\ alive
  /\ proc[p].pc = "gvcDone"
  /\ proc[p].entry = "api"
  /\ proc' = [proc EXCEPT ![p] = [@ EXCEPT !.pc = "done"]]
  /\ UNCHANGED <<env, saFile, oauthFile, now, googleAuth, server, startAuthType,
                 timerActive, lastQuiet, calls, envChanges, slots>>

\* startServer without the test of line 411: the timer armed in either mode
ConnectSucceedsAnyMode ==
  /\ server = "connecting"
  /\ server' = "running"
  /\ timerActive' = TRUE
  /\ proc' = [proc EXCEPT !["main"] = Returned]
  /\ UNCHANGED <<env, saFile, oauthFile, now, googleAuth, startAuthType,
                 lastQuiet, calls, envChanges, slots>>

\* startServer, lines 407-413
ConnectSucceeds ==
  /\ server = "connecting"
  /\ server' = "running"
  /\ timerActive' = (startAuthType = OAUTH)
  /\ proc' = [proc EXCEPT !["main"] = Returned]
  /\ UNCHANGED <<env, saFile, oauthFile, now, googleAuth, startAuthType,
                 lastQuiet, calls, envChanges, slots>>

\* startServer, lines 414-417: server.connect rejected, process.exit(1)
ConnectFails ==
  /\ server = "connecting"
  /\ server' = "exited"
  /\ proc' = [proc EXCEPT !["main"] = Returned]
  /\ UNCHANGED <<env, saFile, oauthFile, now, googleAuth, startAuthType, timerActive,
                 lastQuiet, calls, envChanges, slots>>

\* the files a user or another program may put in place of the credential file
PlacedFiles ==
  {AbsentFile,
   JsonFile([access_token |-> "at2", refresh_token |-> "rt1",
             expiry_date |-> T0 + tokenLifetime, scope |-> SCOPES])}

\* outside the process, the key file is created or removed
KeyFileChanges ==
  /\ server \in {"starting", "connecting", "running"}
  /\ envChanges < MaxEnvChanges
  /\ saFile' = IF saFile = "absent" THEN "valid" ELSE "absent"
  /\ envChanges' = envChanges + 1
  /\ proc' = disturb(proc, "none")
  /\ UNCHANGED <<env, oauthFile, now, googleAuth, server, startAuthType, timerActive,
                 lastQuiet, calls, slots>>

\* outside the process, the credential file is created, replaced or removed
CredentialFileChanges ==
  /\ server \in {"starting", "connecting", "running"}
  /\ envChanges < MaxEnvChanges
  /\ \E f \in PlacedFiles \ {oauthFile} : oauthFile' = f
  /\ envChanges' = envChanges + 1
  /\ proc' = disturb(proc, "none")
  /\ lastQuiet' = NoQuiet
  /\ UNCHANGED <<env, saFile, now, googleAuth, server, startAuthType, timerActive,
                 calls, slots>>

\* time passes
ClockSteps == {tokenLifetime}

AdvanceClock ==
  /\ server = "running"
  /\ envChanges < MaxEnvChanges
  /\ \E d \in ClockSteps : now' = now + d
  /\ envChanges' = envChanges + 1
  /\ UNCHANGED <<env, saFile, oauthFile, googleAuth, server, startAuthType,
                 timerActive, proc, lastQuiet, calls, slots>>

Next ==
  \/ StartServer
  \/ \E p \in Handlers : CallTool(p)
  \/ \E p \in Handlers, f \in BOOLEAN : CallGetValidCredentials(p, f)
  \/ \E p \in Handlers : CallResource(p)
  \/ \E p \in Handlers : TimerTick(p)
  \/ \E p \in Procs : RefreshSucceeds(p)
  \/ \E p \in Procs : RefreshFails(p)
  \/ \E p \in Handlers : QuietReturn(p)
  \/ \E p \in Procs : AfterQuiet(p)
  \/ \E p \in Procs : InteractiveSucceeds(p)
  \/ \E p \in Procs, why \in {"timeout", "error"} : InteractiveFails(p, why)
  \/ \E p \in Procs : PostRefreshSucceeds(p)
  \/ \E p \in Procs : PostRefreshFails(p)
  \/ StartupContinues
  \/ \E p \in Handlers : ToolContinues(p)
  \/ \E p \in Handlers : ApiReturns(p)
  \/ ConnectSucceeds
  \/ ConnectFails
  \/ KeyFileChanges
  \/ CredentialFileChanges
  \/ AdvanceClock

Spec == Init /\ [][Next]_vars

\* Two requests or ticks at a time: the handlers are async functions and the
\* server starts one per incoming request, the timer one per tick; nothing
\* makes a handler wait for another one.  OAUTH mode, no key file.
InitConc ==
  /\ env = "unset"
  /\ saFile = "absent"
  /\ oauthFile \in {AbsentFile,
                    JsonFile([access_token |-> "at1", refresh_token |-> "rt1",
                              expiry_date |-> T0 + fiveMinutes - 1, scope |-> SCOPES])}
  /\ now = T0
  /\ googleAuth = NULL
  /\ server = "init"
  /\ startAuthType = OAUTH
  /\ timerActive = FALSE
  /\ proc = [p \in Procs |-> Idle]
  /\ lastQuiet = NoQuiet
  /\ slots = Handlers
  /\ calls = 0
  /\ envChanges = 0

SpecConc == InitConc /\ [][Next]_vars

\* The event loop runs every continuation that is ready; the timer of
\* authenticateWithTimeout fires; every refreshAccessToken and server.connect
\* call settles.  The browser flow itself need not ever complete.
Fairness ==
  /\ WF_vars(StartServer)
  /\ WF_vars(StartupContinues)
  /\ WF_vars(ConnectSucceeds \/ ConnectFails)
  /\ \A p \in Procs :
       /\ WF_vars(RefreshSucceeds(p) \/ RefreshFails(p))
       /\ WF_vars(AfterQuiet(p))
       /\ WF_vars(InteractiveFails(p, "timeout"))
       /\ WF_vars(PostRefreshSucceeds(p) \/ PostRefreshFails(p))
  /\ \A p \in Handlers :
       /\ WF_vars(QuietReturn(p))
       /\ WF_vars(ToolContinues(p))
       /\ WF_vars(ApiReturns(p))

\* one start per mode and per kind of credential file
InitLive ==
  /\ Init
  /\ env \in {"true", "unset"}
  /\ saFile \in {"absent", "valid"}
  /\ oauthFile \in {AbsentFile} \cup
       { JsonFile([access_token |-> "at1", refresh_token |-> "rt1",
                   expiry_date |-> e, scope |-> SCOPES]) :
           e \in {T0 + fiveMinutes - 1, T0 + fiveMinutes + 1} }

SpecLive == InitLive /\ [][Next]_vars /\ Fairness

TypeOK ==
  /\ env \in EnvValues
  /\ saFile \in SaFiles
  /\ oauthFile.state \in {"absent", "malformed", "json"}
  /\ googleAuth.kind \in {"null", "sa", "oauth"}
  /\ server \in {"init", "starting", "connecting", "running", "exited"}
  /\ \A p \in Procs : proc[p].pc \in {"idle", "quietDone", "refreshing", "interactive",
                                      "postRefresh", "gvcDone", "done"}

(***************************************************************************)
(* Properties.                                                             *)
(***************************************************************************)
isGvc(p) == proc[p].entry \in {"startup", "tool", "api"}
isQuiet(p) == proc[p].entry \in {"resource", "tick"}
returned(p) == proc[p].pc \in {"gvcDone", "done"}
\* the call of p started in OAUTH mode and ran loadOAuthCredentialsQuietly
ranOAuthQuiet(p) ==
  /\ proc[p].entry # "none"
  /\ proc[p].mode0 = OAUTH
  /\ proc[p].quietLoads = 1
shouldBeServiceAccount ==
  env = "true" \/ (saFile # "absent" /\ oauthFile.state = "absent")

\* C1: getAuthType is SERVICE_ACCOUNT exactly when USE_SERVICE_ACCOUNT is "true"
\* or the key file exists and the credential file does not, and OAUTH otherwise;
\* so is the mode every call and startServer computed from the files as they are.
C1_AuthTypeRule ==
  /\ getAuthType(env, saFile, oauthFile) =
       IF shouldBeServiceAccount THEN SERVICE_ACCOUNT ELSE OAUTH
  /\ \A p \in Procs :
       (proc[p].entry # "none" /\ ~proc[p].disturbed /\ proc[p].writes = 0)
         => proc[p].mode0 = IF shouldBeServiceAccount THEN SERVICE_ACCOUNT ELSE OAUTH
  /\ (server = "starting" /\ ~proc["main"].disturbed /\ proc["main"].writes = 0)
         => startAuthType = IF shouldBeServiceAccount THEN SERVICE_ACCOUNT ELSE OAUTH

\* a forced setting gave SERVICE_ACCOUNT with no key file and a credential file present
C1_Witness ==
  /\ server = "starting"
  /\ env = "true" /\ saFile = "absent" /\ oauthFile.state = "json"
  /\ ~proc["main"].disturbed
  /\ startAuthType = SERVICE_ACCOUNT

\* C2: in OAUTH mode a quiet load of a record that expires more than 5 minutes
\* from now returns a handle built from that record, attempts no refresh and
\* writes nothing; a second such load right after it returns the same
\* credentials and leaves the file as it was.
C2_NoRefreshWhenFresh ==
  /\ [](\A p \in Procs :
          (ranOAuthQuiet(p) /\ nonExpiring(proc[p].file0, proc[p].now0))
            => /\ proc[p].quietRet = OAuthHandle(proc[p].file0.rec)
               /\ proc[p].refreshes = 0
               /\ proc[p].writes = 0
               /\ proc[p].pc # "refreshing"
               /\ ~proc[p].disturbed => oauthFile = proc[p].file0)
  /\ [][\A p \in Procs :
          ( /\ proc[p].pc \in {"idle", "done"}
            /\ proc'[p].pc \notin {"idle", "done"}
            /\ proc'[p].quietLoads = 1
            /\ getAuthType(env, saFile, oauthFile) = OAUTH
            /\ nonExpiring(oauthFile, now)
            /\ lastQuiet.streak > 0 )
          => /\ proc'[p].quietRet = lastQuiet.ret
             /\ proc'[p].quietRet # NULL
             /\ oauthFile' = oauthFile]_vars

\* two loads in a row found the record not expiring
C2_Witness ==
  /\ lastQuiet.streak >= 2
  /\ \E p \in Handlers :
       /\ ranOAuthQuiet(p) /\ nonExpiring(proc[p].file0, proc[p].now0)
       /\ proc[p].quietRet = lastQuiet.ret
       /\ proc[p].file0.rec.refresh_token # None

\* the record at the start of the call expires in under 5 minutes and has a refresh token
expiringWithToken(p) ==
  /\ proc[p].file0.state = "json"
  /\ proc[p].file0.rec.expiry_date # NaN
  /\ timeToExpiry(proc[p].file0.rec, proc[p].now0) < fiveMinutes
  /\ proc[p].file0.rec.refresh_token # None

\* C3: a quiet load of a record that expires in under 5 minutes and has a
\* refresh token makes exactly one refresh attempt; when it succeeds, the file
\* holds exactly the record received and the handle returned carries it.
C3_RefreshReplacesRecord ==
  \A p \in Procs :
    (ranOAuthQuiet(p) /\ expiringWithToken(p))
      => /\ proc[p].refreshes = 1
         /\ (proc[p].pc # "refreshing") => proc[p].refreshed \in {"ok", "failed"}
         /\ (proc[p].refreshed = "ok")
              => /\ proc[p].quietRet = OAuthHandle(proc[p].fresh)
                 /\ proc[p].writes = 1
                 /\ ~proc[p].disturbed => oauthFile = JsonFile(proc[p].fresh)

\* a refresh succeeded with a record that lacks the refresh token of the saved one
C3_Witness ==
  \E p \in Procs :
    /\ ranOAuthQuiet(p) /\ expiringWithToken(p)
    /\ proc[p].refreshed = "ok"
    /\ proc[p].fresh.refresh_token = None
    /\ ~proc[p].disturbed
    /\ proc[p].pc = "quietDone"

\* C4: when the refresh of a quiet load fails the load returns null, has made
\* one refresh attempt only, has written nothing and has started no
\* interactive flow, and the credential file is as it was before the call.
C4_RefreshFailureLeavesFile ==
  \A p \in Procs :
    (proc[p].refreshed = "failed" /\ (proc[p].pc = "quietDone" \/ isQuiet(p)))
      => /\ proc[p].quietRet = NULL
         /\ proc[p].ret = NULL
         /\ proc[p].refreshes = 1
         /\ proc[p].writes = 0
         /\ proc[p].inters = 0
         /\ ~proc[p].disturbed => oauthFile = proc[p].file0

\* a quiet load has returned after a failed refresh
C4_Witness ==
  \E p \in Procs :
    /\ proc[p].refreshed = "failed"
    /\ proc[p].pc = "quietDone"
    /\ ~proc[p].disturbed
    /\ oauthFile.state = "json"

\* C5: with no credential file, mode OAUTH and forceAuth false, and the files
\* left alone during the call, getValidCredentials has started the interactive
\* flow exactly once when it returns.
C5_InteractiveOnce ==
  \A p \in Procs :
    ( /\ isGvc(p) /\ ~proc[p].force
      /\ proc[p].mode0 = OAUTH
      /\ proc[p].file0.state = "absent"
      /\ ~proc[p].disturbed )
      => /\ proc[p].pc \in {"quietDone", "interactive", "postRefresh", "gvcDone", "done"}
         /\ (proc[p].pc # "quietDone") => proc[p].inters = 1
         /\ (proc[p].pc = "quietDone") => (proc[p].inters = 0 /\ proc[p].ret = NULL)

\* such a call has returned
C5_Witness ==
  \E p \in Procs :
    /\ isGvc(p) /\ ~proc[p].force
    /\ proc[p].mode0 = OAUTH
    /\ proc[p].file0.state = "absent"
    /\ ~proc[p].disturbed
    /\ proc[p].pc = "gvcDone"
    /\ proc[p].inters = 1

\* C6: when the interactive flow of startup times out, the interactive step
\* yields null and startServer does not go on to connect the transport.
C6_TimeoutIsFatal ==
  (proc["main"].outcome = "timeout")
    => (proc["main"].ret = NULL /\ server # "connecting")

\* C7: the interactive flow starts in getValidCredentials only: never in a call
\* of the resource handlers or of the timer, and never before the quiet load of
\* a getValidCredentials call has returned.
C7_InteractiveOnlyFromTop ==
  \A p \in Procs :
    /\ isQuiet(p) => (proc[p].inters = 0 /\ proc[p].pc \notin {"interactive", "postRefresh", "gvcDone"})
    /\ (proc[p].pc \in {"refreshing", "quietDone"}) => proc[p].inters = 0
    /\ (proc[p].inters > 0) => isGvc(p)

\* a timer tick ended after its refresh failed
C7_Witness ==
  \E p \in Handlers :
    /\ proc[p].entry = "tick"
    /\ proc[p].pc = "done"
    /\ proc[p].refreshed = "failed"

\* C8: a timer tick installs the handle of its quiet load as the default
\* credential; when the load gave null it leaves the installed credential as it
\* is; it starts no interactive flow, the process lives on and the timer stays armed.
C8_TickInstallsOrSkips ==
  /\ [](\A p \in Procs :
          (proc[p].entry = "tick") => (proc[p].inters = 0 /\ (alive => timerActive)))
  /\ [][\A p \in Procs :
          (proc[p].entry = "tick" /\ proc[p].pc = "quietDone" /\ proc'[p].pc # "quietDone")
            => /\ proc'[p].pc = "done"
               /\ googleAuth' = IF proc[p].ret # NULL THEN proc[p].ret ELSE googleAuth
               /\ server' = "running"
               /\ timerActive']_vars

\* a tick whose load gave null has ended and a credential is still installed
C8_Witness ==
  \E p \in Handlers :
    /\ proc[p].entry = "tick"
    /\ proc[p].pc = "done"
    /\ proc[p].quietRet = NULL
    /\ googleAuth # NULL

\* C9: a getValidCredentials call that starts in SERVICE_ACCOUNT mode never
\* starts the interactive flow, whatever forceAuth is and whatever happens to
\* the files during the call; a null from the service account is retried once
\* and the result of the retry is returned.
C9_ServiceAccountNeverInteractive ==
  \A p \in Procs :
    (isGvc(p) /\ proc[p].mode0 = SERVICE_ACCOUNT)
      => /\ proc[p].inters = 0
         /\ proc[p].pc \in {"quietDone", "gvcDone", "done"}
         /\ returned(p)
              => /\ proc[p].saLoads =
                      IF ~proc[p].force /\ proc[p].quietRet = NULL THEN 2 ELSE 1
                 /\ ~proc[p].disturbed
                      => proc[p].ret = authenticateWithServiceAccount(saFile)

\* the key file appeared between the null of the quiet attempt and the retry
C9_Witness ==
  \E p \in Procs :
    /\ isGvc(p) /\ proc[p].mode0 = SERVICE_ACCOUNT
    /\ ~proc[p].force
    /\ proc[p].quietRet = NULL
    /\ proc[p].saLoads = 2
    /\ proc[p].ret # NULL
    /\ proc[p].pc = "gvcDone"

\* C10: in OAUTH mode getValidCredentials(false) runs the quiet load first,
\* returns its result when it is not null and starts the interactive flow only
\* after a null; getValidCredentials(true) runs no quiet load, reads no record
\* and starts the interactive flow at once.
C10_QuietBeforeInteractive ==
  \A p \in Procs :
    (isGvc(p) /\ proc[p].mode0 = OAUTH)
      => /\ proc[p].force
              => (proc[p].quietLoads = 0 /\ proc[p].reads = 0 /\ proc[p].inters = 1)
         /\ ~proc[p].force
              => /\ proc[p].quietLoads = 1
                 /\ proc[p].inters <= 1
                 /\ (proc[p].inters = 1) => proc[p].quietRet = NULL
                 /\ (proc[p].quietRet # NULL)
                      => (proc[p].inters = 0 /\ (returned(p) => proc[p].ret = proc[p].quietRet))

\* a forced call went to the interactive flow with a valid record on disk
C10_Witness ==
  \E p \in Procs :
    /\ isGvc(p) /\ proc[p].mode0 = OAUTH
    /\ proc[p].force
    /\ nonExpiring(proc[p].file0, proc[p].now0)
    /\ proc[p].pc = "interactive"

\* C11: after an interactive flow that succeeded, the credential file holds the
\* credential the call returns, whether the refresh that follows succeeded
\* (the refreshed record) or failed (the record of the flow).
C11_PersistsEitherOutcome ==
  \A p \in Procs :
    (proc[p].outcome = "success" /\ proc[p].pc = "gvcDone")
      => /\ proc[p].writes = 1
         /\ ~proc[p].disturbed => oauthFile = JsonFile(proc[p].ret.creds)

\* C12: when the flow succeeds and the refresh after it fails,
\* authenticateAndSaveCredentials returns a handle that carries the credential
\* of the flow, getValidCredentials returns that handle, and one refresh only
\* was attempted after the flow.
C12_FailedPostRefreshKeepsOriginal ==
  \A p \in Procs :
    /\ (proc[p].outcome = "success") => proc[p].postRefreshes = 1
    /\ (proc[p].outcome # "success") => proc[p].postRefreshes = 0
    /\ (proc[p].postRefreshed = "failed")
         => /\ proc[p].outcome = "success"
            /\ returned(p)
            /\ proc[p].ret # NULL
            /\ proc[p].ret = OAuthHandle(proc[p].granted)
            /\ proc[p].granted \in interactiveResults(proc[p].granted.expiry_date - tokenLifetime)

\* getValidCredentials has returned the credential of the flow after a failed refresh
C12_Witness ==
  \E p \in Procs :
    /\ proc[p].postRefreshed = "failed"
    /\ proc[p].pc = "gvcDone"
    /\ proc[p].ret = OAuthHandle(proc[p].granted)
    /\ proc[p].granted.refresh_token = None

\* C13: an unparseable credential file is treated as an absent one: the quiet
\* load returns null, refreshes nothing and writes nothing, and
\* getValidCredentials(false) in OAUTH mode goes on to the interactive flow.
C13_MalformedAsAbsent ==
  \A p \in Procs :
    (ranOAuthQuiet(p) /\ proc[p].file0.state = "malformed")
      => /\ proc[p].quietRet = NULL
         /\ proc[p].refreshes = 0
         /\ proc[p].pc # "refreshing"
         /\ (proc[p].pc = "quietDone" \/ isQuiet(p))
              => (proc[p].ret = NULL /\ proc[p].writes = 0 /\ proc[p].inters = 0)
         /\ (isGvc(p) /\ proc[p].pc # "quietDone" /\ ~proc[p].disturbed)
              => proc[p].inters = 1

\* getValidCredentials went on to the interactive flow over an unparseable file,
\* with a key file present
C13_Witness ==
  \E p \in Procs :
    /\ ranOAuthQuiet(p) /\ proc[p].file0.state = "malformed"
    /\ isGvc(p)
    /\ saFile # "absent"
    /\ ~proc[p].disturbed
    /\ proc[p].pc = "interactive"

\* C14: authenticateWithServiceAccount returns a handle for a present, well
\* formed key file only, and null for an absent or malformed one.
C14_MalformedKeyGivesNull ==
  \A p \in Procs :
    ( /\ proc[p].mode0 = SERVICE_ACCOUNT
      /\ proc[p].saLoads >= 1
      /\ proc[p].pc \in {"quietDone", "gvcDone", "done"}
      /\ ~proc[p].disturbed )
      => (proc[p].ret # NULL <=> saFile = "valid")

\* C15: every handle an authentication path returns is good for the whole of SCOPES.
C15_EveryHandleHasAllScopes ==
  \A p \in Procs :
    (proc[p].pc \in {"quietDone", "gvcDone", "done"} /\ proc[p].ret # NULL)
      => SCOPES \subseteq grantedScopes(proc[p].ret)

\* C16 as stated: with no key file getAuthType is OAUTH, whatever the environment.
C16_NoKeyFileMeansOAuth ==
  (saFile = "absent") => getAuthType(env, saFile, oauthFile) = OAUTH

\* C16, amended: with no key file and USE_SERVICE_ACCOUNT other than "true",
\* getAuthType is OAUTH, whatever the state of the credential file; so is the
\* mode of every call that started over these files.
C16_NoKeyFileUnforcedMeansOAuth ==
  (saFile = "absent" /\ env # "true")
    => /\ getAuthType(env, saFile, oauthFile) = OAUTH
       /\ \A p \in Procs :
            (proc[p].entry # "none" /\ ~proc[p].disturbed) => proc[p].mode0 = OAUTH

\* a call started in OAUTH mode with neither file and the flag set to "false"
C16_Witness ==
  \E p \in Procs :
    /\ saFile = "absent" /\ env = "false"
    /\ proc[p].entry # "none" /\ ~proc[p].disturbed
    /\ proc[p].file0.state = "absent"
    /\ proc[p].mode0 = OAUTH

\* C20: loadOAuthCredentialsQuietly attempts a refresh exactly when the record
\* expires in less than 300000 ms and has a refresh token.  With 300000 ms left
\* there is no refresh; a record that is expiring or expired and has no refresh
\* token is returned as it is, with no refresh and no write.
C20_RefreshThreshold ==
  \A p \in Procs :
    (ranOAuthQuiet(p) /\ proc[p].file0.state = "json" /\ proc[p].file0.rec.expiry_date # NaN)
      => LET rec == proc[p].file0.rec
             left == timeToExpiry(rec, proc[p].now0)
         IN /\ proc[p].refreshes = IF left < 300000 /\ rec.refresh_token # None THEN 1 ELSE 0
            /\ (left = 300000)
                 => (proc[p].pc # "refreshing" /\ proc[p].quietRet = OAuthHandle(rec))
            /\ (left < 300000 /\ rec.refresh_token = None)
                 => /\ proc[p].pc # "refreshing"
                    /\ proc[p].quietRet = OAuthHandle(rec)
                    /\ proc[p].quietRet # NULL
                    /\ proc[p].writes = 0

\* a record with a refresh token and exactly 300000 ms left was returned unrefreshed
C20_Witness ==
  \E p \in Procs :
    /\ ranOAuthQuiet(p) /\ proc[p].file0.state = "json"
    /\ proc[p].file0.rec.refresh_token # None
    /\ timeToExpiry(proc[p].file0.rec, proc[p].now0) = 300000
    /\ proc[p].refreshes = 0
    /\ proc[p].quietRet = OAuthHandle(proc[p].file0.rec)
    /\ proc[p].pc = "done"

\* C17: an interactive flow is never in flight while a quiet load is suspended
\* on its refresh.
C17_NoInteractiveDuringQuiet ==
  \A p, q \in Procs :
    ~(p # q /\ proc[p].pc = "interactive" /\ proc[q].pc = "refreshing")

\* C18: no two read-refresh-write sequences on the credential file overlap, and
\* two refreshes that started from the same record never both write the file.
C18_OneDecisionInFlight ==
  \A p, q \in Procs :
    (p # q)
      => /\ ~(proc[p].pc = "refreshing" /\ proc[q].pc = "refreshing")
         /\ ~( /\ proc[p].refreshed = "ok" /\ proc[q].refreshed = "ok"
               /\ proc[p].file0 = proc[q].file0 /\ proc[p].now0 = proc[q].now0 )

\* C19: if the timer of the interactive step fires and every refresh settles,
\* every getValidCredentials call returns; the interactive step gives the
\* credentials of the flow when the flow completes first and null when the
\* timer fires first or the flow fails; startup reaches the connected state or
\* the exit of the process.
C19_EveryCallReturns ==
  /\ \A p \in Procs :
       (isGvc(p) /\ proc[p].pc \in {"quietDone", "refreshing", "interactive", "postRefresh"})
         ~> returned(p)
  /\ (server \in {"init", "starting", "connecting"}) ~> (server \in {"running", "exited"})
  /\ [][\A p \in Procs :
          (proc[p].pc = "interactive" /\ proc'[p].pc # "interactive")
            => \/ /\ proc'[p].outcome = "success"
                  /\ proc'[p].pc = "postRefresh"
                  /\ proc'[p].client.creds \in interactiveResults(now)
               \/ /\ proc'[p].outcome \in {"timeout", "error"}
                  /\ proc'[p].pc = "gvcDone"
                  /\ proc'[p].ret = NULL]_vars

\* a call whose interactive step timed out has returned null to a running server
C19_Witness ==
  \E p \in Handlers :
    /\ isGvc(p)
    /\ proc[p].outcome = "timeout"
    /\ proc[p].pc = "done"
    /\ proc[p].ret = NULL
    /\ server = "running"

\* the steps of the clock and the changes of the files made outside the process
clockSteps == (now - T0) \div tokenLifetime
fileChanges == envChanges - clockSteps

\* C21: as long as nothing outside the process has changed the files (the
\* environment is fixed throughout), getAuthType keeps the value startServer
\* read, whatever calls, quiet loads, ticks and steps of the clock happen: no
\* step of the process removes the OAuth credential file, and none writes it
\* while the mode is SERVICE_ACCOUNT.
C21_AuthTypeStable ==
  /\ []((fileChanges = 0 /\ server # "init")
          => getAuthType(env, saFile, oauthFile) = startAuthType)
  /\ [][(envChanges' - ((now' - T0) \div tokenLifetime) = 0)
          => /\ env' = env
             /\ getAuthType(env', saFile', oauthFile')
                  = getAuthType(env, saFile, oauthFile)
             /\ existsSync(oauthFile) => existsSync(oauthFile')
             /\ (getAuthType(env, saFile, oauthFile) = SERVICE_ACCOUNT)
                  => oauthFile' = oauthFile]_vars

\* with a key file in place and only the credential file keeping the mode at
\* OAUTH, a tick after a step of the clock has refreshed and rewritten that file
C21_Witness ==
  \E p \in Handlers :
    /\ fileChanges = 0
    /\ clockSteps > 0
    /\ env = "unset"
    /\ saFile = "valid"
    /\ proc[p].entry = "tick"
    /\ proc[p].pc = "done"
    /\ proc[p].refreshed = "ok"
    /\ oauthFile = JsonFile(proc[p].fresh)
    /\ getAuthType(env, saFile, oauthFile) = OAUTH

\* C22: setupTokenRefresh arms the timer at most once, in the step in which
\* server.connect resolves, after the getValidCredentials call of startup has
\* returned, and only when the mode startServer read first was OAUTH; the timer
\* is never re-armed and startup is never re-entered. A tick runs only while
\* the timer is armed and the server is connected: none runs when that mode was
\* SERVICE_ACCOUNT, and none when startup ended in process.exit.
C22_SchedulerStartedOnce ==
  /\ [][(timerActive' /\ ~timerActive)
          => /\ server = "connecting"
             /\ server' = "running"
             /\ proc["main"].pc = "done"
             /\ proc["main"].entry = "startup"
             /\ startAuthType = OAUTH]_vars
  /\ [][/\ timerActive => timerActive'
        /\ (server \in {"running", "exited"}) => server' = server
        /\ (server # "init") => startAuthType' = startAuthType]_vars
  /\ [](timerActive => (server = "running" /\ startAuthType = OAUTH))
  /\ [](\A p \in Procs :
          (proc[p].entry = "tick")
            => (timerActive /\ server = "running" /\ startAuthType = OAUTH))

\* a tick has run to its end although the files now select SERVICE_ACCOUNT:
\* the timer was armed for the mode read at the start of startup
C22_Witness ==
  \E p \in Handlers :
    /\ proc[p].entry = "tick"
    /\ proc[p].pc = "done"
    /\ timerActive
    /\ startAuthType = OAUTH
    /\ getAuthType(env, saFile, oauthFile) = SERVICE_ACCOUNT

====
